---- MODULE Spec2Model ----
(***************************************************************************)
(* The fanfare time-series store (src/src/main.rs): the composite key      *)
(* codec, the write run inside one LMDB write transaction, the read        *)
(* command with its optional glob filter, and the infos command.           *)
(*                                                                         *)
(* Text is a sequence of byte values.  A 64-bit integer is four 16-bit     *)
(* limbs, most significant first; the top limb of a signed one is signed.  *)
(* The store is the sequence of its entries in LMDB's key order.           *)
(***************************************************************************)
EXTENDS Integers, Sequences, FiniteSets, TLC

\* ------------------------------------------------------------------ bounds
\* The number of data records a store holds in the model.
MaxRecords == 3
\* The number of value tokens a line of the input carries at most.
MaxValues == 2

\* ---------------------------------------------------------------- helpers
None == <<>>
Some(v) == <<v>>

\* Rust's Option<Code> for one schema character (Code::from).
CodeFrom(c) ==
    CASE c = 102 -> Some("Float")
      [] c = 70  -> Some("Double")
      [] c = 117 -> Some("Unsigned")
      [] c = 85  -> Some("UnsignedLong")
      [] c = 105 -> Some("Signed")
      [] c = 73  -> Some("SignedLong")
      [] OTHER   -> None

\* The mutant of the width: every type is written as four bytes.
WidthFour(code) == 4

\* The number of bytes to_be_bytes / read_xx::<BigEndian> moves for a Code.
Width(code) ==
    IF code \in {"Float", "Unsigned", "Signed"} THEN 4 ELSE 8

\* The mutant of the cast: the sign bit is flipped, which keeps the signed
\* order in the unsigned count.
AsU64Biased(i) == <<(i[1] + 32768) % 65536, i[2], i[3], i[4]>>

\* `dt.timestamp_nanos() as u64`: the signed count modulo 2^64.
AsU64(i) == <<i[1] % 65536, i[2], i[3], i[4]>>

\* u64::to_be_bytes.
ToBeBytes(u) ==
    << u[1] \div 256, u[1] % 256, u[2] \div 256, u[2] % 256,
       u[3] \div 256, u[3] % 256, u[4] \div 256, u[4] % 256 >>

\* u64::from_be_bytes.
FromBeBytes(b) ==
    << b[1] * 256 + b[2], b[3] * 256 + b[4],
       b[5] * 256 + b[6], b[7] * 256 + b[8] >>

\* Key::bytes_encode: the name's bytes, then the timestamp, nothing between.
KeyEncode(text, nanos) == text \o ToBeBytes(nanos)

\* The mutant of the key decoder: the timestamp is taken from the front.
KeyDecodeFront(bytes) ==
    [text  |-> SubSeq(bytes, 9, Len(bytes)),
     nanos |-> FromBeBytes(SubSeq(bytes, 1, 8))]

\* Key::bytes_decode: the last eight bytes are the timestamp.
KeyDecode(bytes) ==
    LET text_len == Len(bytes) - 8
    IN  [text  |-> SubSeq(bytes, 1, text_len),
         nanos |-> FromBeBytes(SubSeq(bytes, text_len + 1, Len(bytes)))]

\* The key of the entry that holds the schema: ("", 0).
SentinelKey == KeyEncode(<<>>, <<0, 0, 0, 0>>)

\* LMDB's key order: bytewise, a proper prefix first.
RECURSIVE BytesLess(_, _)
BytesLess(a, b) ==
    IF b = <<>> THEN FALSE
    ELSE IF a = <<>> THEN TRUE
    ELSE IF a[1] # b[1] THEN a[1] < b[1]
    ELSE BytesLess(Tail(a), Tail(b))

BytesLeq(a, b) == a = b \/ BytesLess(a, b)

\* ------------------------------------------------------ the storage engine
Entry(k, v) == [key |-> k, val |-> v]

\* db.get(txn, key)
DbGet(s, k) ==
    IF \E i \in 1..Len(s) : s[i].key = k
    THEN Some((s[CHOOSE i \in 1..Len(s) : s[i].key = k]).val)
    ELSE None

\* db.put(txn, key, value): replaces the entry of that key or inserts it in
\* key order.
DbPut(s, k, v) ==
    LET below == SelectSeq(s, LAMBDA e : BytesLess(e.key, k))
        above == SelectSeq(s, LAMBDA e : BytesLess(k, e.key))
    IN  below \o <<Entry(k, v)>> \o above

\* The append mutant: an insertion in key order that accepts any new key.
DbAppendUnordered(s, k, v) ==
    IF DbGet(s, k) # None THEN [ok |-> FALSE, db |-> s]
    ELSE [ok |-> TRUE, db |-> DbPut(s, k, v)]

\* The append mutant: a key equal to the last key is appended too.
DbAppendLeq(s, k, v) ==
    IF s # <<>> /\ BytesLess(k, s[Len(s)].key)
    THEN [ok |-> FALSE, db |-> s]
    ELSE [ok |-> TRUE, db |-> Append(s, Entry(k, v))]

\* db.append(txn, key, value): MDB_APPEND, KeyExist unless the key is
\* greater than the last key of the store.
DbAppend(s, k, v) ==
    IF s # <<>> /\ ~BytesLess(s[Len(s)].key, k)
    THEN [ok |-> FALSE, db |-> s]
    ELSE [ok |-> TRUE, db |-> Append(s, Entry(k, v))]

\* db.first(txn)
DbFirst(s) == IF s = <<>> THEN None ELSE Some(s[1])

\* db.len(txn)
DbLen(s) == Len(s)

\* db.range(txn, lo..=hi) and db.range(txn, lo..): hi = None is unbounded.
DbRange(s, lo, hi) ==
    SelectSeq(s, LAMBDA e :
        /\ BytesLeq(lo, e.key)
        /\ (hi = None \/ BytesLeq(e.key, hi[1])))

\* ---------------------------------------------------------- the value codec
\* The decimal digits of a token, most significant first.
RECURSIVE DecValue(_)
DecValue(t) ==
    IF t = <<>> THEN 0 ELSE DecValue(SubSeq(t, 1, Len(t) - 1)) * 10 + (t[Len(t)] - 48)

AllDigits(t) == t # <<>> /\ \A i \in 1..Len(t) : t[i] \in 48..57

\* u32/u64/i32/i64::from_str: an optional '+', for the signed types an
\* optional '-', then digits only.  The tokens of the model are short, so
\* the overflow branch of the parser is out of reach.
ParseInt(t, signed) ==
    IF t = <<>> THEN None
    ELSE IF t[1] = 43 THEN (IF AllDigits(Tail(t)) THEN Some(DecValue(Tail(t))) ELSE None)
    ELSE IF t[1] = 45 /\ signed
         THEN (IF AllDigits(Tail(t)) THEN Some(0 - DecValue(Tail(t))) ELSE None)
    ELSE IF AllDigits(t) THEN Some(DecValue(t)) ELSE None

\* to_be_bytes of an integer of w bytes (two's complement); the model's
\* integers fit the low two bytes and their sign fills the rest.
IntToBe(v, w) ==
    [i \in 1..w |->
        IF i = w THEN v % 256
        ELSE IF i = w - 1 THEN (v \div 256) % 256
        ELSE IF v < 0 THEN 255 ELSE 0]

\* f32/f64::from_str then to_be_bytes, on the integer literals -2..2 (the
\* part of the float grammar the model's tokens use): sign, exponent and an
\* all-zero mantissa.
FloatToBe(v, w) ==
    LET head == CASE v = 0     -> <<0, 0>>
                  [] v = 1     -> IF w = 4 THEN <<63, 128>> ELSE <<63, 240>>
                  [] v = 0 - 1 -> IF w = 4 THEN <<191, 128>> ELSE <<191, 240>>
                  [] v = 2     -> <<64, 0>>
                  [] OTHER     -> <<192, 0>>
    IN  [i \in 1..w |-> IF i <= 2 THEN head[i] ELSE 0]

ParseFloat(t) ==
    LET r == ParseInt(t, TRUE)
    IN  IF r # None /\ r[1] \in (0 - 2)..2 THEN r ELSE None

\* One arm of the match in the encoding loop: parse the token as the
\* code's type and give its big-endian bytes, or None on a parse error.
EncodeValue(code, n) ==
    LET r == CASE code \in {"Float", "Double"}           -> ParseFloat(n)
               [] code \in {"Unsigned", "UnsignedLong"}  -> ParseInt(n, FALSE)
               [] OTHER                                  -> ParseInt(n, TRUE)
    IN  IF r = None THEN None
        ELSE IF code \in {"Float", "Double"} THEN Some(FloatToBe(r[1], Width(code)))
        ELSE Some(IntToBe(r[1], Width(code)))

\* The mutant of the encoding loop: a character that is no type code is
\* passed over with its value instead of ending the run.
RECURSIVE EncodeValuesSkip(_, _, _)
EncodeValuesSkip(code, values, buffer) ==
    IF code = <<>> \/ values = <<>> THEN [err |-> "", buffer |-> buffer]
    ELSE LET c == CodeFrom(code[1])
         IN  IF c = None THEN EncodeValuesSkip(Tail(code), Tail(values), buffer)
             ELSE LET b == EncodeValue(c[1], values[1])
                  IN  IF b = None THEN [err |-> "number parse error", buffer |-> buffer]
                      ELSE EncodeValuesSkip(Tail(code), Tail(values), buffer \o b[1])

\* The loop `for (c, n) in code.as_bytes().iter().zip(values)`: the buffer
\* grows by one field at a time and the first failure ends the run.
RECURSIVE EncodeValues(_, _, _)
EncodeValues(code, values, buffer) ==
    IF code = <<>> \/ values = <<>> THEN [err |-> "", buffer |-> buffer]
    ELSE LET c == CodeFrom(code[1])
         IN  IF c = None THEN [err |-> "Invalid code character", buffer |-> buffer]
             ELSE LET b == EncodeValue(c[1], values[1])
                  IN  IF b = None THEN [err |-> "number parse error", buffer |-> buffer]
                      ELSE EncodeValues(Tail(code), Tail(values), buffer \o b[1])

\* --------------------------------------------------------- the write run
\* The mutant of the schema match: the arm that refuses another code is
\* gone, so a code that differs is stored as the schema.
ResolveCodeAdopt(vc, code) ==
    IF vc # None /\ vc[1] = code
    THEN [err |-> "", put |-> FALSE, values_code |-> vc]
    ELSE [err |-> "", put |-> TRUE, values_code |-> Some(code)]

\* The mutant of the schema match: the first line's code is remembered but
\* the sentinel is not written.
ResolveCodeNoPut(vc, code) ==
    IF vc # None /\ vc[1] = code
    THEN [err |-> "", put |-> FALSE, values_code |-> vc]
    ELSE IF vc # None
    THEN [err |-> "invalid code", put |-> FALSE, values_code |-> vc]
    ELSE [err |-> "", put |-> FALSE, values_code |-> Some(code)]

\* The mutant of the schema match: the sentinel is written but values_code
\* is not set, so the run never has a schema to compare with.
ResolveCodeForget(vc, code) ==
    IF vc # None /\ vc[1] = code
    THEN [err |-> "", put |-> FALSE, values_code |-> vc]
    ELSE IF vc # None
    THEN [err |-> "invalid code", put |-> FALSE, values_code |-> vc]
    ELSE [err |-> "", put |-> TRUE, values_code |-> vc]

\* `let code = match values_code { .. }`: the stored schema accepts only
\* its own bytes; with no schema yet the line's code is put under the
\* sentinel key and becomes values_code.
ResolveCode(vc, code) ==
    IF vc # None /\ vc[1] = code
    THEN [err |-> "", put |-> FALSE, values_code |-> vc]
    ELSE IF vc # None
    THEN [err |-> "invalid code", put |-> FALSE, values_code |-> vc]
    ELSE [err |-> "", put |-> TRUE, values_code |-> Some(code)]

\* The mutant of the count check: only a line with too few values is
\* refused.
CountShort(code, count) == Len(code) > count

\* `if code.len() != iter.count()`
CountDiffers(code, count) == Len(code) # count

\* The body of `for result in reader.lines()` for one line.  A line is the
\* token sequence split_whitespace gives: toks counts how many of text,
\* date and code are there, values are the tokens after them.  err = "" is
\* a line whose record was appended; wtxn is the transaction's view when
\* the body ends either way.
ProcessLine(w, vc, line) ==
    IF line.toks = 0 THEN [err |-> "missing text", wtxn |-> w, values_code |-> vc]
    ELSE IF line.toks = 1 THEN [err |-> "missing date", wtxn |-> w, values_code |-> vc]
    ELSE IF line.toks = 2 THEN [err |-> "missing code", wtxn |-> w, values_code |-> vc]
    ELSE
      LET rc  == ResolveCode(vc, line.code)
          w1  == IF rc.put THEN DbPut(w, SentinelKey, line.code) ELSE w
          vc1 == rc.values_code
      IN
      IF rc.err # ""
      THEN [err |-> rc.err, wtxn |-> w, values_code |-> vc]
      ELSE IF CountDiffers(line.code, Len(line.values))
      THEN [err |-> "wrong number of values", wtxn |-> w1, values_code |-> vc1]
      ELSE IF ~line.date.ok
      THEN [err |-> "date parse error", wtxn |-> w1, values_code |-> vc1]
      ELSE
        LET nanos == AsU64(line.date.nanos)
            enc   == EncodeValues(line.code, line.values, <<>>)
        IN
        IF enc.err # ""
        THEN [err |-> enc.err, wtxn |-> w1, values_code |-> vc1]
        ELSE
          LET a == DbAppend(w1, KeyEncode(line.text, nanos), enc.buffer)
          IN  IF a.ok THEN [err |-> "", wtxn |-> a.db, values_code |-> vc1]
              ELSE [err |-> "inserted value not ordered", wtxn |-> w1,
                    values_code |-> vc1]

\* The mutant of the early return: the transaction is committed as it is.
DropCommits(committed, w) == w

\* `return Err(..)` drops wtxn: the transaction aborts and the store is the
\* committed one.
DropWtxn(committed, w) == committed

\* wtxn.commit(): the transaction's view becomes the store.
Commit(committed, w) == w

\* ------------------------------------------------------ the read command
\* glob::Pattern::escape: each of ? * [ ] becomes a one-character class.
RECURSIVE PatternEscape(_)
PatternEscape(p) ==
    IF p = <<>> THEN <<>>
    ELSE IF p[1] \in {63, 42, 91, 93}
         THEN <<91, p[1], 93>> \o PatternEscape(Tail(p))
         ELSE <<p[1]>> \o PatternEscape(Tail(p))

\* `pattern.as_str() == glob::Pattern::escape(pattern.as_str())`
IsLiteral(p) == p = PatternEscape(p)

\* The index of the ']' that closes the class opening at p[1] (its first
\* member may itself be ']'); 0 when there is none.
ClassEnd(p) ==
    IF \E k \in 3..Len(p) : p[k] = 93
    THEN CHOOSE k \in 3..Len(p) : p[k] = 93 /\ \A j \in 3..(k - 1) : p[j] # 93
    ELSE 0

\* glob::Pattern::matches with the default options: '?' is any one
\* character, '*' any run of characters, '[..]' any one of the listed
\* characters (the model's patterns use neither ranges nor negation).
RECURSIVE GlobMatches(_, _)
GlobMatches(p, t) ==
    IF p = <<>> THEN t = <<>>
    ELSE IF p[1] = 42
    THEN GlobMatches(Tail(p), t) \/ (t # <<>> /\ GlobMatches(p, Tail(t)))
    ELSE IF p[1] = 63
    THEN t # <<>> /\ GlobMatches(Tail(p), Tail(t))
    ELSE IF p[1] = 91 /\ ClassEnd(p) > 0
    THEN /\ t # <<>>
         /\ \E k \in 2..(ClassEnd(p) - 1) : p[k] = t[1]
         /\ GlobMatches(SubSeq(p, ClassEnd(p) + 1, Len(p)), Tail(t))
    ELSE t # <<>> /\ t[1] = p[1] /\ GlobMatches(Tail(p), Tail(t))

\* The inner loop of read: the cursor gives each code's width in bytes; a
\* short blob is an UnexpectedEof after the fields read so far.  A field
\* is the code and the bits read, which `{}` prints.
RECURSIVE DecodeValues(_, _)
DecodeValues(codes, bytes) ==
    IF codes = <<>> THEN [ok |-> TRUE, values |-> <<>>]
    ELSE IF Len(bytes) < Width(codes[1]) THEN [ok |-> FALSE, values |-> <<>>]
    ELSE LET w    == Width(codes[1])
             rest == DecodeValues(Tail(codes), SubSeq(bytes, w + 1, Len(bytes)))
         IN  [ok     |-> rest.ok,
              values |-> <<[code |-> codes[1], bits |-> SubSeq(bytes, 1, w)]>>
                         \o rest.values]

\* The start of the scan that has no literal bound: ("", 1).
ScanStart == KeyEncode(<<>>, <<0, 0, 0, 1>>)

\* The iterator chosen by `match opt.filter.as_ref()`.
ReadIter(s, filter) ==
    IF filter # None /\ IsLiteral(filter[1])
    THEN DbRange(s, KeyEncode(filter[1], <<0, 0, 0, 0>>),
                    Some(KeyEncode(filter[1], <<65535, 65535, 65535, 65535>>)))
    ELSE DbRange(s, ScanStart, None)

\* `for result in iter`: a row is the name, the instant the printed
\* timestamp denotes (secs * ONE_BILLION + nsecs, the stored count read
\* as unsigned) and the fields; an entry that fails to decode leaves its
\* started line in the output and ends the command.
RECURSIVE ReadLoop(_, _, _, _)
ReadLoop(iter, filter, codes, out) ==
    IF iter = <<>> THEN [out |-> out, err |-> ""]
    ELSE LET k == KeyDecode(iter[1].key)
         IN  IF filter # None /\ ~GlobMatches(filter[1], k.text)
             THEN ReadLoop(Tail(iter), filter, codes, out)
             ELSE LET d   == DecodeValues(codes, iter[1].val)
                      row == [text |-> k.text, nanos |-> k.nanos, values |-> d.values]
                  IN  IF d.ok THEN ReadLoop(Tail(iter), filter, codes, Append(out, row))
                      ELSE [out |-> Append(out, row), err |-> "failed to fill whole buffer"]

\* read_from_database on a store snapshot.
ReadFromDatabase(s, filter) ==
    IF DbFirst(s) = None THEN [out |-> <<>>, err |-> ""]
    ELSE LET code == DbFirst(s)[1].val
         IN  IF \E i \in 1..Len(code) : CodeFrom(code[i]) = None
             THEN [out |-> <<>>, err |-> "unwrap on None"]
             ELSE ReadLoop(ReadIter(s, filter), filter,
                           [i \in 1..Len(code) |-> CodeFrom(code[i])[1]], <<>>)

\* ----------------------------------------------------- the infos command
\* u64::saturating_sub
SaturatingSub(a, b) == IF a >= b THEN a - b ELSE 0

\* The mutant of the entry count: the sentinel is counted.
EntryCountAll(s) == DbLen(s)

\* `db.len(&rtxn)?.saturating_sub(1)`
EntryCount(s) == SaturatingSub(DbLen(s), 1)

\* infos_of_database on a store snapshot: the schema line, if printed, and
\* the number of entries.
InfosOfDatabase(s) == [code |-> DbGet(s, SentinelKey), entries |-> EntryCount(s)]

\* -------------------------------------------------------------- the inputs
\* Series names as split_whitespace gives them, never empty: "a", "ab" and
\* a name that is one NUL character.
Names == { <<97>>, <<97, 98>>, <<0>> }

\* Signed nanosecond counts NaiveDateTime::timestamp_nanos gives: the
\* epoch, an instant of the year 2196 and one nanosecond before the epoch.
Instants == { <<0, 0, 0, 0>>, <<25344, 0, 0, 0>>, <<0 - 1, 65535, 65535, 65535>> }

\* A date token is one NaiveDateTime::parse_from_str rejects or the
\* instant it parses to.
DateTokens ==
    { [ok |-> FALSE, nanos |-> <<0, 0, 0, 0>>] } \cup { [ok |-> TRUE, nanos |-> i] : i \in Instants }

\* Type-code strings: "u", "fU" and "ux", whose second character is no
\* type code.
CodeStrings == { <<117>>, <<102, 85>>, <<117, 120>> }

\* Value tokens: "1" and "z".
ValueTokens == { <<49>>, <<122>> }

ValueLists == UNION { [1..n -> ValueTokens] : n \in 0..MaxValues }

Lines ==
    { [toks |-> n, text |-> <<97>>, date |-> [ok |-> FALSE, nanos |-> <<0, 0, 0, 0>>],
       code |-> <<117>>, values |-> <<>>] : n \in 0..2 }
    \cup
    { [toks |-> 3, text |-> t, date |-> d, code |-> c, values |-> v] :
        t \in Names, d \in DateTokens, c \in CodeStrings, v \in ValueLists }

\* --filter: absent, the literals "", "a" and "ab", the globs "*", "a*"
\* and "a[b]".
Filters ==
    { None, Some(<<>>), Some(<<97>>), Some(<<97, 98>>),
      Some(<<42>>), Some(<<97, 42>>), Some(<<97, 91, 98, 93>>) }

\* ---------------------------------------------------------------- the state
VARIABLES
    db,           \* the committed store, in key order
    pc,           \* "idle", or "writing" while a write run holds its transaction
    wtxn,         \* the store as the write transaction sees it
    values_code,  \* the write run's values_code
    pre,          \* the committed store when the current or last write run began
    runlog,       \* the lines the current write run has appended, in order
    log,          \* the lines appended by the committed runs, in order
    resp,         \* what the last command to end gave
    reader        \* the read transaction a command running beside a write
                  \* run holds: None, or its snapshot and whether it began
                  \* while a write run was in progress

vars == <<db, pc, wtxn, values_code, pre, runlog, log, resp, reader>>

\* The text, date and code tokens of a line, as a refused line is reported.
LineHead(line) == [line EXCEPT !.values = <<>>]

NoLine ==
    [toks |-> 0, text |-> <<97>>, date |-> [ok |-> FALSE, nanos |-> <<0, 0, 0, 0>>],
     code |-> <<117>>, values |-> <<>>]

\* A command's outcome: res is "ok" or the error; a read gives its filter,
\* the rows it printed and, in n, 1 when its transaction began while a
\* write run was in progress; infos gives the schema line and the entry
\* count; a write run gives the number of lines it appended and, when it
\* failed, the head of the line it failed on.
Resp(op, res, filter, out, code, n, line) ==
    [op |-> op, res |-> res, filter |-> filter, out |-> out, code |-> code, n |-> n,
     line |-> line]

NoResp == Resp("none", "", None, <<>>, None, 0, NoLine)

\* The data records of a store: its entries but the one under SentinelKey.
DataOf(s) == SelectSeq(s, LAMBDA e : e.key # SentinelKey)

Init ==
    /\ db = <<>>
    /\ pc = "idle"
    /\ wtxn = <<>>
    /\ values_code = None
    /\ pre = <<>>
    /\ runlog = <<>>
    /\ log = <<>>
    /\ resp = NoResp
    /\ reader = None

\* write_to_database up to the loop: the transaction opens on the committed
\* store and values_code is read from it.
BeginWrite ==
    /\ pc = "idle"
    /\ pc' = "writing"
    /\ wtxn' = db
    /\ values_code' = DbGet(db, SentinelKey)
    /\ pre' = db
    /\ runlog' = <<>>
    /\ resp' = NoResp
    /\ UNCHANGED <<db, log, reader>>

\* One turn of the loop over the lines of the input, the line drawn from
\* `lines`: the line's record is appended (while the store holds fewer than
\* MaxRecords records), or the run returns its error and the transaction
\* is dropped.
WriteLineOf(lines) ==
    /\ pc = "writing"
    /\ UNCHANGED reader
    /\ \E line \in lines :
       \E r \in { ProcessLine(wtxn, values_code, line) } :
             IF r.err = ""
             THEN /\ Len(DataOf(wtxn)) < MaxRecords
                  /\ wtxn' = r.wtxn
                  /\ values_code' = r.values_code
                  /\ runlog' = Append(runlog, line)
                  /\ resp' = NoResp
                  /\ UNCHANGED <<db, pc, pre, log>>
             ELSE /\ db' = DropWtxn(db, r.wtxn)
                  /\ pc' = "idle"
                  /\ wtxn' = <<>>
                  /\ values_code' = None
                  /\ runlog' = <<>>
                  /\ resp' = Resp("write", r.err, None, <<>>, None, Len(runlog),
                                  LineHead(line))
                  /\ UNCHANGED <<pre, log>>

WriteLine == WriteLineOf(Lines)

\* The input ends: wtxn.commit() and Ok(()).
EndOfInput ==
    /\ pc = "writing"
    /\ db' = Commit(db, wtxn)
    /\ log' = log \o runlog
    /\ pc' = "idle"
    /\ wtxn' = <<>>
    /\ values_code' = None
    /\ resp' = Resp("write", "ok", None, <<>>, None, Len(runlog), NoLine)
    /\ runlog' = <<>>
    /\ UNCHANGED <<pre, reader>>

\* read_from_database, between write runs: its read transaction sees the
\* committed store.
Read ==
    /\ pc = "idle"
    /\ \E f \in Filters :
       \E r \in { ReadFromDatabase(db, f) } :
             resp' = Resp("read", IF r.err = "" THEN "ok" ELSE r.err, f, r.out, None, 0,
                          NoLine)
    /\ UNCHANGED <<db, pc, wtxn, values_code, pre, runlog, log, reader>>

\* infos_of_database, between write runs, on the committed store as well.
Infos ==
    /\ pc = "idle"
    /\ LET r == InfosOfDatabase(db)
       IN  resp' = Resp("infos", "ok", None, <<>>, r.code, r.entries, NoLine)
    /\ UNCHANGED <<db, pc, wtxn, values_code, pre, runlog, log, reader>>

Next == BeginWrite \/ WriteLine \/ EndOfInput \/ Read \/ Infos

Spec == Init /\ [][Next]_vars

\* ------------------------------------- commands running beside a write run
\* The mutant of the read transaction: it sees the pages the write
\* transaction in progress has written.
ReadTxnDirty(committed, w) == IF w = <<>> THEN committed ELSE w

\* `env.read_txn()`: the transaction's snapshot is the store as last
\* committed, whatever a write transaction in progress holds.
ReadTxn(committed, w) == committed

\* The lines a write run offers beside a reader: those of series "a".
ConcLines == { line \in Lines : line.toks = 3 /\ line.text = <<97>> }

\* A write run begins while no read transaction is open; a reader that
\* began before the run holds the snapshot of one that begins with it.
ConcBeginWrite == reader = None /\ BeginWrite

ConcWriteLine == WriteLineOf(ConcLines)

\* read_from_database or infos_of_database up to `env.read_txn()`, at any
\* point of a write run or between runs.
BeginRead ==
    /\ reader = None
    /\ reader' = Some([snap |-> ReadTxn(db, wtxn), during |-> pc = "writing"])
    /\ UNCHANGED <<db, pc, wtxn, values_code, pre, runlog, log, resp>>

\* The rest of read_from_database, on its transaction's snapshot.
EndRead ==
    /\ reader # None
    /\ \E f \in Filters :
       \E r \in { ReadFromDatabase(reader[1].snap, f) } :
             resp' = Resp("read", IF r.err = "" THEN "ok" ELSE r.err, f, r.out, None,
                          IF reader[1].during THEN 1 ELSE 0, NoLine)
    /\ reader' = None
    /\ UNCHANGED <<db, pc, wtxn, values_code, pre, runlog, log>>

\* The rest of infos_of_database, on its transaction's snapshot.
EndInfos ==
    /\ reader # None
    /\ LET r == InfosOfDatabase(reader[1].snap)
       IN  resp' = Resp("infos", "ok", None, <<>>, r.code, r.entries, NoLine)
    /\ reader' = None
    /\ UNCHANGED <<db, pc, wtxn, values_code, pre, runlog, log>>

ConcNext ==
    ConcBeginWrite \/ ConcWriteLine \/ EndOfInput \/ BeginRead \/ EndRead \/ EndInfos

SpecConcurrent == Init /\ [][ConcNext]_vars

\* ------------------------------------------------ what the claims speak of
\* Unsigned order of two 64-bit counts.
U64Less(a, b) ==
    \E i \in 1..4 : a[i] < b[i] /\ \A j \in 1..(i - 1) : a[j] = b[j]

U64Leq(a, b) == a = b \/ U64Less(a, b)

\* The timestamp a line's record is stored under (timestampNanos, the
\* unsigned count) and its composite key.
LineNanos(line) == AsU64(line.date.nanos)
LineKey(line) == KeyEncode(line.text, LineNanos(line))

\* A line that is a record the run's schema takes: all tokens there, the
\* code the schema's (or any, when there is none yet), as many values as
\* codes, a date and values that parse.
IsRecord(vc, line) ==
    /\ line.toks = 3
    /\ vc = None \/ vc[1] = line.code
    /\ Len(line.code) = Len(line.values)
    /\ line.date.ok
    /\ EncodeValues(line.code, line.values, <<>>).err = ""

\* The lines accepted so far as the write transaction sees them.
Accepted == log \o runlog

WriteFailed == resp.op = "write" /\ resp.res # "ok"

\* ---------------------------------------------------------------------- C1
\* C1: a write run that fails on any line leaves the committed store (the
\* sentinel and every data record) exactly as it was when the run began,
\* whatever the run had appended before; and while a run is under way the
\* committed store is the one it began with, so records show only at the
\* commit that follows the end of the input.
C1_Atomicity ==
    /\ WriteFailed => db = pre
    /\ pc = "writing" => db = pre

\* C1 witness: a run on the empty store wrote the sentinel, appended lines
\* and then failed; the store is empty again.
C1_Witness ==
    /\ WriteFailed
    /\ resp.n > 0
    /\ pre = <<>>
    /\ db = <<>>

\* ---------------------------------------------------------------------- C2
\* C2: once a sentinel with schema S is committed, a later run refuses any
\* line whose code is not S with "invalid code" and the store, sentinel
\* and records, stays as it was; in every state the sentinel holds the
\* code of the first committed record.
C2_SchemaImmutable ==
    /\ (pc = "writing" /\ DbGet(pre, SentinelKey) # None) =>
           \A line \in Lines :
               (line.toks = 3 /\ Some(line.code) # DbGet(pre, SentinelKey)) =>
                   ProcessLine(wtxn, values_code, line).err = "invalid code"
    /\ (WriteFailed /\ resp.res = "invalid code") => db = pre
    /\ db # <<>> => (log # <<>> /\ DbGet(db, SentinelKey) = Some(log[1].code))

\* C2 witness: a run on a store with a committed schema failed on a line of
\* another code.
C2_Witness ==
    /\ WriteFailed
    /\ resp.res = "invalid code"
    /\ DbGet(pre, SentinelKey) # None
    /\ Some(resp.line.code) # DbGet(db, SentinelKey)
    /\ Len(DataOf(db)) >= 1

\* ---------------------------------------------------------------------- C3
\* C3: a record offered for a series that already has a record, committed
\* or appended earlier in the same run, with a stored timestamp at or
\* below that record's, is refused with "inserted value not ordered", and
\* the store after the run is the store before it.
C3_AppendOrder ==
    /\ pc = "writing" =>
           \A line \in Lines :
               ( /\ IsRecord(values_code, line)
                 /\ \E i \in 1..Len(Accepted) :
                        /\ Accepted[i].text = line.text
                        /\ U64Leq(LineNanos(line), LineNanos(Accepted[i])) ) =>
                   ProcessLine(wtxn, values_code, line).err = "inserted value not ordered"
    /\ (WriteFailed /\ resp.res = "inserted value not ordered") => db = pre

\* C3 witness: a run failed as not ordered on a line of a series that has a
\* committed record with a timestamp at or above the line's.
C3_Witness ==
    /\ WriteFailed
    /\ resp.res = "inserted value not ordered"
    /\ \E i \in 1..Len(log) :
           /\ log[i].text = resp.line.text
           /\ U64Leq(LineNanos(resp.line), LineNanos(log[i]))
    /\ db = pre

\* A line's values as read prints them: each code with the bits of its
\* token.
ExpectedFields(line) ==
    [i \in 1..Len(line.code) |->
        [code |-> CodeFrom(line.code[i])[1],
         bits |-> EncodeValue(CodeFrom(line.code[i])[1], line.values[i])[1]]]

\* The row of a line with the instant its date token denotes (signed), and
\* with the instant of the unsigned count it is stored under.
RowAsWritten(line) ==
    [text |-> line.text, nanos |-> line.date.nanos, values |-> ExpectedFields(line)]

RowAsStored(line) ==
    [text |-> line.text, nanos |-> LineNanos(line), values |-> ExpectedFields(line)]

RowsAsWritten(ls) == [i \in 1..Len(ls) |-> RowAsWritten(ls[i])]
RowsAsStored(ls) == [i \in 1..Len(ls) |-> RowAsStored(ls[i])]

\* Stored timestamps strictly increasing within each series.
PerSeriesIncreasing(ls) ==
    \A i, j \in 1..Len(ls) :
        (i < j /\ ls[i].text = ls[j].text) => U64Less(LineNanos(ls[i]), LineNanos(ls[j]))

\* Composite keys strictly increasing in byte order.
KeyIncreasing(ls) ==
    \A i, j \in 1..Len(ls) : i < j => BytesLess(LineKey(ls[i]), LineKey(ls[j]))

\* A read that ended after a single write run on the empty store (or none).
ReadAfterFirstRun(f) ==
    pc = "idle" /\ pre = <<>> /\ resp.op = "read" /\ resp.filter = f

C5_LiteralFilter ==
    (resp.op = "read" /\ resp.filter # None /\ IsLiteral(resp.filter[1])) =>
        /\ resp.res = "ok"
        /\ resp.out = RowsAsStored(SelectSeq(log, LAMBDA l : l.text = resp.filter[1]))

\* C5 for the literals that are not empty, where it holds: series whose
\* keys fall inside the byte range of L are dropped by the match on the
\* decoded name.
C5_NonEmptyLiteral ==
    (resp.op = "read" /\ resp.filter # None /\ resp.filter # Some(<<>>)
        /\ IsLiteral(resp.filter[1])) =>
        /\ resp.res = "ok"
        /\ resp.out = RowsAsStored(SelectSeq(log, LAMBDA l : l.text = resp.filter[1]))

\* ---------------------------------------------------------------------- C6
\* C6 as stated: a read with a glob filter P prints exactly the records
\* whose series name matches P, each once, in key order.
C6_GlobFilter ==
    (resp.op = "read" /\ resp.filter # None /\ ~IsLiteral(resp.filter[1])) =>
        /\ resp.res = "ok"
        /\ resp.out =
               RowsAsStored(SelectSeq(log, LAMBDA l : GlobMatches(resp.filter[1], l.text)))

\* ---------------------------------------------------------------------- C7
\* C7: infos reports as many entries as the committed runs appended
\* records, failed runs and the sentinel adding nothing, and the schema
\* line exactly when a sentinel is committed, with its value; on a store
\* never written it reports 0 entries and no schema.
C7_Metadata ==
    resp.op = "infos" =>
        /\ resp.n = Len(log)
        /\ resp.code = DbGet(db, SentinelKey)
        /\ resp.code = (IF log = <<>> THEN None ELSE Some(log[1].code))
        /\ db = <<>> => (resp.n = 0 /\ resp.code = None)

\* C7 witness: infos reports records after a run that changed nothing.
C7_Witness ==
    /\ resp.op = "infos"
    /\ resp.n >= 2
    /\ pre = db

\* ---------------------------------------------------------------------- C8
\* C8: the data records of the committed store are the committed lines in
\* the order accepted; that order is the byte order of their keys, and
\* within a series the stored timestamps strictly increase.
C8_SeriesOrdered ==
    /\ Len(DataOf(db)) = Len(log)
    /\ \A i \in 1..Len(log) : DataOf(db)[i].key = LineKey(log[i])
    /\ KeyIncreasing(log)
    /\ PerSeriesIncreasing(log)

\* C8 witness: a series has two committed records, one from an earlier run
\* and one from the last run.
C8_Witness ==
    /\ pc = "idle"
    /\ pre # <<>>
    /\ Len(log) > Len(DataOf(pre))
    /\ \E i, j \in 1..Len(db) :
           /\ i < j
           /\ KeyDecode(db[i].key).text = KeyDecode(db[j].key).text
           /\ i <= Len(pre) /\ j > Len(pre)

\* ---------------------------------------------------------------------- C9
\* C9 as stated: in key order the records of one series are contiguous: no
\* record of another series lies between two records of a series.
C9_SeriesContiguous ==
    \A i, j, k \in 1..Len(db) :
        (i < j /\ j < k /\ KeyDecode(db[i].key).text = KeyDecode(db[k].key).text) =>
            KeyDecode(db[j].key).text = KeyDecode(db[i].key).text

\* --------------------------------------------------------------------- C10
\* C10: in a store that is not empty the first entry is the sentinel,
\* eight zero bytes, below the key of every other entry, and its value is
\* the schema string, the code of the first committed record.
C10_SentinelFirst ==
    db # <<>> =>
        /\ DbFirst(db)[1].key = <<0, 0, 0, 0, 0, 0, 0, 0>>
        /\ \A i \in 2..Len(db) : BytesLess(<<0, 0, 0, 0, 0, 0, 0, 0>>, db[i].key)
        /\ log # <<>>
        /\ DbFirst(db)[1].val = log[1].code

\* C10 witness: the store holds the record whose key is nearest the
\* sentinel's, the name of one NUL at the epoch.
C10_Witness ==
    /\ Len(db) >= 2
    /\ db[2].key = <<0, 0, 0, 0, 0, 0, 0, 0, 0>>

\* --------------------------------------------------------------------- C11
\* C11: in a write run that began on a store with no sentinel, the first
\* line's code is put under the sentinel key in the run's transaction
\* before that line's record is appended and becomes the run's schema;
\* every line the run appends carries that code, and a later line with
\* another code is refused with "invalid code" and leaves the transaction
\* as it was, nothing appended; the run that fails so commits nothing.
C11_SchemaWithinRun ==
    /\ (pc = "writing" /\ DbGet(pre, SentinelKey) = None /\ runlog = <<>>) =>
           /\ values_code = None
           /\ \A line \in Lines :
                  line.toks = 3 =>
                      LET r == ProcessLine(wtxn, values_code, line)
                      IN  /\ r.err # "invalid code"
                          /\ r.values_code = Some(line.code)
                          /\ r.wtxn # <<>>
                          /\ r.wtxn[1] = Entry(SentinelKey, line.code)
                          /\ r.err = "" => /\ Len(r.wtxn) = 2
                                           /\ r.wtxn[2].key = LineKey(line)
    /\ (pc = "writing" /\ DbGet(pre, SentinelKey) = None /\ runlog # <<>>) =>
           /\ values_code = Some(runlog[1].code)
           /\ DbGet(wtxn, SentinelKey) = Some(runlog[1].code)
           /\ \A i \in 1..Len(runlog) : runlog[i].code = runlog[1].code
           /\ \A line \in Lines :
                  (line.toks = 3 /\ line.code # runlog[1].code) =>
                      LET r == ProcessLine(wtxn, values_code, line)
                      IN  /\ r.err = "invalid code"
                          /\ r.wtxn = wtxn
    /\ (WriteFailed /\ resp.res = "invalid code") => db = pre

\* C11 witness: a run that began on the empty store appended a line and
\* then failed on a line with another code.
C11_Witness ==
    /\ WriteFailed
    /\ resp.res = "invalid code"
    /\ pre = <<>>
    /\ resp.n >= 1
    /\ db = <<>>

\* --------------------------------------------------------------------- C12
\* The fixed width of a type-code byte: f, u, i are 4 bytes, F, U, I are 8.
FieldWidth(c) ==
    CASE c \in {102, 117, 105} -> 4
      [] c \in {70, 85, 73}    -> 8
      [] OTHER                 -> 0

\* The sum of the fixed widths of the codes of a schema string.
RECURSIVE SchemaWidth(_)
SchemaWidth(code) ==
    IF code = <<>> THEN 0 ELSE FieldWidth(code[1]) + SchemaWidth(Tail(code))

\* The Codes of a schema string, as read maps them.
CodesOf(code) == [i \in 1..Len(code) |-> CodeFrom(code[i])[1]]

\* C12: in every committed store the value of each data record is exactly
\* as long as the sum of the fixed widths of the codes of the committed
\* schema string, so decoding it with the schema gives one value per code,
\* uses the whole blob and never runs past its end.
C12_BlobWidth ==
    \A i \in 1..Len(db) :
        db[i].key # SentinelKey =>
            /\ DbGet(db, SentinelKey) # None
            /\ LET schema == DbGet(db, SentinelKey)[1]
                   d      == DecodeValues(CodesOf(schema), db[i].val)
               IN  /\ Len(db[i].val) = SchemaWidth(schema)
                   /\ d.ok
                   /\ Len(d.values) = Len(schema)
                   /\ \A j \in 1..Len(schema) :
                          Len(d.values[j].bits) = FieldWidth(schema[j])

\* C12 witness: a committed store whose schema is "fU" holds a record of
\* twelve bytes.
C12_Witness ==
    /\ pc = "idle"
    /\ DbGet(db, SentinelKey) = Some(<<102, 85>>)
    /\ \E i \in 1..Len(db) : db[i].key # SentinelKey /\ Len(db[i].val) = 12

\* --------------------------------------------------------------------- C13
\* C13 as stated: every line whose number of value tokens differs from the
\* length of its code makes the run fail with "wrong number of values".
C13_FieldCountAlways ==
    pc = "writing" =>
        \A line \in Lines :
            (line.toks = 3 /\ Len(line.values) # Len(line.code)) =>
                ProcessLine(wtxn, values_code, line).err = "wrong number of values"

\* C13, amended: a line whose number of value tokens differs from the
\* length of its code is refused and no record of it is appended; the
\* error is "invalid code" when the run has a schema and the line's code
\* differs from it (that check comes first) and "wrong number of values"
\* otherwise.  When the run had no schema the sentinel is put in the
\* transaction for that line, and a run that fails with "wrong number of
\* values" leaves the store as it was before the run, so no sentinel
\* persists.
C13_FieldCount ==
    /\ pc = "writing" =>
           \A line \in Lines :
               (line.toks = 3 /\ Len(line.values) # Len(line.code)) =>
                   LET r == ProcessLine(wtxn, values_code, line)
                   IN  /\ r.err = IF values_code # None /\ values_code[1] # line.code
                                  THEN "invalid code"
                                  ELSE "wrong number of values"
                       /\ DataOf(r.wtxn) = DataOf(wtxn)
                       /\ values_code = None =>
                              DbGet(r.wtxn, SentinelKey) = Some(line.code)
    /\ (WriteFailed /\ resp.res = "wrong number of values") =>
           /\ db = pre
           /\ pre = <<>> => DbGet(db, SentinelKey) = None

\* C13 witness: the first line of a run on the empty store had the wrong
\* number of values, and the store is still empty.
C13_Witness ==
    /\ WriteFailed
    /\ resp.res = "wrong number of values"
    /\ resp.n = 0
    /\ pre = <<>>
    /\ db = <<>>

\* --------------------------------------------------------------------- C14
\* A signed nanosecond count is before the epoch when its top limb is
\* negative.
PreEpoch(i) == i[1] < 0

\* The record a line with a parsed date gives is of series `text`.
SeriesHas(lines, text, pred(_)) ==
    \E k \in 1..Len(lines) : lines[k].text = text /\ pred(lines[k].date.nanos)

SeriesAll(lines, text, pred(_)) ==
    \A k \in 1..Len(lines) : lines[k].text = text => pred(lines[k].date.nanos)

\* C14 as stated: a pre-epoch record offered after post-epoch records of
\* its series (and no pre-epoch one) is accepted.
C14_PreEpochAccepted ==
    pc = "writing" =>
        \A line \in Lines :
            ( /\ IsRecord(values_code, line)
              /\ PreEpoch(line.date.nanos)
              /\ SeriesHas(Accepted, line.text, LAMBDA i : ~PreEpoch(i))
              /\ SeriesAll(Accepted, line.text, LAMBDA i : ~PreEpoch(i)) ) =>
                ProcessLine(wtxn, values_code, line).err = ""

\* C14, amended: the stored timestamp is the signed count modulo 2^64 (one
\* nanosecond before the epoch is stored as 2^64 - 1), so under one name
\* every pre-epoch count is stored above every post-epoch count, in the
\* unsigned order and in the byte order of the keys.  A pre-epoch record
\* offered when the last record of the store is a post-epoch record of its
\* series is accepted, and a post-epoch record offered after a pre-epoch
\* record of its series is refused with "inserted value not ordered".
C14_Reinterpretation ==
    /\ AsU64(<<0 - 1, 65535, 65535, 65535>>) = <<65535, 65535, 65535, 65535>>
    /\ \A n \in Names : \A i, j \in Instants :
           (PreEpoch(i) /\ ~PreEpoch(j)) =>
               /\ U64Less(AsU64(j), AsU64(i))
               /\ BytesLess(KeyEncode(n, AsU64(j)), KeyEncode(n, AsU64(i)))
    /\ pc = "writing" =>
           /\ \A k \in 1..Len(Accepted) :
                  /\ DataOf(wtxn)[k].key = KeyEncode(Accepted[k].text,
                                                     AsU64(Accepted[k].date.nanos))
                  /\ KeyDecode(DataOf(wtxn)[k].key).nanos[1] =
                         Accepted[k].date.nanos[1] % 65536
           /\ \A line \in Lines :
                  LET r == ProcessLine(wtxn, values_code, line)
                  IN  /\ ( /\ IsRecord(values_code, line)
                           /\ PreEpoch(line.date.nanos)
                           /\ Accepted # <<>>
                           /\ Accepted[Len(Accepted)].text = line.text
                           /\ ~PreEpoch(Accepted[Len(Accepted)].date.nanos) ) =>
                             r.err = ""
                      /\ ( /\ IsRecord(values_code, line)
                           /\ ~PreEpoch(line.date.nanos)
                           /\ SeriesHas(Accepted, line.text, PreEpoch) ) =>
                             r.err = "inserted value not ordered"

\* C14 witness: a series has a committed pre-epoch record that was offered
\* after a post-epoch record of it, and a later post-epoch record of the
\* series has just been refused as out of order.
C14_Witness ==
    /\ WriteFailed
    /\ resp.res = "inserted value not ordered"
    /\ ~PreEpoch(resp.line.date.nanos)
    /\ \E i, j \in 1..Len(log) :
           /\ i < j
           /\ log[i].text = resp.line.text
           /\ log[j].text = resp.line.text
           /\ ~PreEpoch(log[i].date.nanos)
           /\ PreEpoch(log[j].date.nanos)

\* --------------------------------------------------------------------- C15
\* A read's output has a line for the sentinel: a row of the empty name at
\* timestamp zero.
EmitsSentinel(out) ==
    \E k \in 1..Len(out) : out[k].text = <<>> /\ out[k].nanos = <<0, 0, 0, 0>>

\* C15 as stated: for every store and every filter, absent, literal (the
\* empty string too) or glob, a read prints no line for the sentinel and
\* does not fail decoding the schema string as a value blob.
C15_SentinelNeverRead ==
    resp.op = "read" =>
        /\ ~EmitsSentinel(resp.out)
        /\ resp.res = "ok"

\* C15 for every filter but the empty literal, where it holds: the scan
\* starts above the sentinel, at ("", 1) or at (L, 0) for a literal L that
\* is not empty.
C15_OtherFilters ==
    (resp.op = "read" /\ resp.filter # Some(<<>>)) =>
        /\ ~EmitsSentinel(resp.out)
        /\ resp.res = "ok"

\* --------------------------------------------------------------------- C16
\* C16: a read or infos that runs beside a write run sees a committed
\* store only.  The snapshot of a transaction that began while a run was
\* in progress is the store as it was before that run, also after the run
\* has committed or aborted; one that began between runs is the committed
\* store.  What the command prints is what it gives on that store, so no
\* sentinel and no record of a run in progress or aborted is seen.
C16_NoPartialBatch ==
    /\ reader # None =>
           /\ reader[1].snap = IF reader[1].during THEN pre ELSE db
           /\ pc = "writing" => reader[1].snap = pre
    /\ resp.op = "read" =>
           LET seen == IF resp.n = 1 \/ pc = "writing" THEN pre ELSE db
               r    == ReadFromDatabase(seen, resp.filter)
           IN  /\ resp.out = r.out
               /\ resp.res = IF r.err = "" THEN "ok" ELSE r.err
               /\ seen = <<>> => resp.out = <<>>
    /\ (resp.op = "infos" /\ pc = "writing") =>
           /\ resp.code = DbGet(pre, SentinelKey)
           /\ resp.n = EntryCount(pre)

\* C16 witness: a read with no filter began and ended while a write run
\* that had appended records was in progress, on a store that held a
\* record before the run.
C16_Witness ==
    /\ pc = "writing"
    /\ resp.op = "read"
    /\ resp.n = 1
    /\ resp.filter = None
    /\ pre # <<>>
    /\ Len(wtxn) > Len(pre)

\* --------------------------------------------------------------------- C17
\* C17: in every committed store the sentinel is there if and only if at
\* least one data record is there.  A run whose input is empty commits the
\* store it began with, and a run that fails on its first line, after the
\* sentinel was put in its transaction, leaves the store it began with.
C17_SentinelWithData ==
    /\ (DbGet(db, SentinelKey) # None) <=> (Len(DataOf(db)) >= 1)
    /\ (resp.op = "write" /\ resp.n = 0) => db = pre
    /\ (pc = "writing" /\ values_code = None) =>
           /\ DataOf(wtxn) = <<>>
           /\ \A line \in Lines :
                  LET r == ProcessLine(wtxn, values_code, line)
                  IN  r.err # "" =>
                          /\ DataOf(r.wtxn) = <<>>
                          /\ DropWtxn(db, r.wtxn) = pre

\* C17 witness: the first line of a run on the empty store failed after
\* the sentinel was put (its date does not parse), and the store is empty.
C17_Witness ==
    /\ WriteFailed
    /\ resp.res = "date parse error"
    /\ resp.n = 0
    /\ pre = <<>>
    /\ db = <<>>

\* --------------------------------------------------------------------- C18
\* The string has a byte that is none of f, F, u, U, i, I.
HasUnknownCode(code) == \E i \in 1..Len(code) : code[i] \notin {102, 70, 117, 85, 105, 73}

\* C18: in every committed store the sentinel's value is a string that is
\* not empty and whose every byte is one of f, F, u, U, i, I, so read's
\* unwrap of each schema character never fails.  A line whose code has
\* another character can put it under the sentinel key in the
\* transaction, but the line is always refused and the run commits
\* nothing.
C18_SchemaDecodable ==
    /\ DbGet(db, SentinelKey) # None =>
           LET code == DbGet(db, SentinelKey)[1]
           IN  /\ Len(code) >= 1
               /\ ~HasUnknownCode(code)
               /\ \A i \in 1..Len(code) : CodeFrom(code[i]) # None
    /\ resp.op = "read" => resp.res # "unwrap on None"
    /\ pc = "writing" =>
           \A line \in Lines :
               (line.toks = 3 /\ HasUnknownCode(line.code)) =>
                   ProcessLine(wtxn, values_code, line).err # ""
    /\ (WriteFailed /\ HasUnknownCode(resp.line.code)) => db = pre

\* C18 witness: on the empty store a first line with the code "ux" and two
\* values put "ux" under the sentinel key in the transaction and was
\* refused at the character x; the store is empty.
C18_Witness ==
    /\ WriteFailed
    /\ resp.res = "Invalid code character"
    /\ resp.line.code = <<117, 120>>
    /\ resp.n = 0
    /\ pre = <<>>
    /\ db = <<>>

====
